---- MODULE Spec2Model ----
(***************************************************************************)
(* A model of pbn-rs (src/lib.rs): the Programming by Navigation session   *)
(* Controller (new / provide / decide / working_expression / valid /       *)
(* can_undo / undo) and the two provider combinators CompoundProvider and  *)
(* FallbackProvider.                                                        *)
(*                                                                         *)
(* Step, ValidityChecker, Timer and the leaf StepProviders are traits: the *)
(* model instantiates them with small concrete implementations (integer    *)
(* expressions, the steps "inc" and "dec", two checkers, leaf providers    *)
(* whose answer to each query is chosen by the environment).               *)
(*                                                                         *)
(* A panic (Option::unwrap on None) is modelled as the call ending with    *)
(* ret.kind = "panic"; the fields the call wrote before the panic keep     *)
(* their values, as they do in Rust when the unwinding is caught           *)
(* (std::panic::catch_unwind) and the controller is used again.            *)
(***************************************************************************)
EXTENDS Integers, Sequences, FiniteSets, TLC

\* ------------------------------------------------------------------ bounds
\* Expressions are the integers 0..MaxExp.
MaxExp == 3
\* decide is not called any more once MaxHist decisions are recorded.
MaxHist == 3

\* ------------------------------------------------- trait instantiations
Exps == 0..MaxExp

\* Option::None as returned by Step::apply
NoneExp == -1

Steps == {"inc", "dec"}

\* Step::apply: "inc" adds one (inapplicable at the top of the expression
\* space), "dec" subtracts one (inapplicable at 0).
Apply(step, e) ==
    IF step = "inc"
    THEN (IF e < MaxExp THEN e + 1 ELSE NoneExp)
    ELSE (IF e > 0 THEN e - 1 ELSE NoneExp)

Checkers == {"even"}

\* ValidityChecker::check
Check(c, e) == IF c = "even" THEN e % 2 = 0 ELSE TRUE

\* Timer::EarlyCutoff values
Cutoffs == {"OutOfTime", "OutOfMemory"}

Timers == {"timerA"}

\* Result<Vec<Step>, EarlyCutoff>
Ok(steps) == [ok |-> TRUE, steps |-> steps, err |-> "none"]
Err(c) == [ok |-> FALSE, steps |-> <<>>, err |-> c]

Leaves == 1..3

\* The steps leaf provider i offers when it offers any.
LeafSteps(i) ==
    CASE i = 1 -> <<"inc">>
      [] i = 2 -> <<"dec", "inc">>
      [] i = 3 -> <<"inc", "inc">>

\* What leaf provider i may answer to one query: nothing, its steps, or a
\* cutoff of its timer.
LeafResults(i) == {Ok(<<>>), Ok(LeafSteps(i))} \cup {Err(c) : c \in Cutoffs}

\* One answer per leaf, for the leaves a call queries.
Answers == {a \in [Leaves -> UNION {LeafResults(i) : i \in Leaves}] :
               \A i \in Leaves : a[i] \in LeafResults(i)}

\* Box<dyn StepProvider>: a leaf, or a combinator owning its children.
Leaf(i) == [kind |-> "leaf", id |-> i, providers |-> <<>>]
CompoundProvider(ps) == [kind |-> "compound", id |-> 0, providers |-> ps]
FallbackProvider(ps) == [kind |-> "fallback", id |-> 0, providers |-> ps]

\* The providers a Controller is constructed with.
Providers ==
    { CompoundProvider(<<Leaf(1), Leaf(2), Leaf(3)>>),
      FallbackProvider(<<Leaf(1), Leaf(2), Leaf(3)>>),
      CompoundProvider(<<CompoundProvider(<<Leaf(1), Leaf(2)>>),
                         CompoundProvider(<<Leaf(3)>>)>>),
      FallbackProvider(<<CompoundProvider(<<Leaf(1), Leaf(2)>>),
                         CompoundProvider(<<Leaf(3)>>)>>) }

\* ------------------------------------------------------ StepProvider
\* provide returns [out |-> the Result, log |-> the leaf queries made, in
\* order]; a log entry records the leaf, the timer and expression it was
\* handed, and what it answered.
RECURSIVE StepProvider_provide(_, _, _, _)
RECURSIVE CompoundProvider_provide(_, _, _, _, _, _, _)
RECURSIVE FallbackProvider_provide(_, _, _, _, _, _)

Query(i, t, e, answer) == [leaf |-> i, timer |-> t, e |-> e, out |-> answer]

\* CompoundProvider::provide with each child's steps put in front of the
\* steps gathered so far
CompoundProvider_provide_prepend(providers, i, steps, log, t, e, answers) ==
    IF i > Len(providers)
    THEN [out |-> Ok(steps), log |-> log]
    ELSE LET r == StepProvider_provide(providers[i], t, e, answers)
         IN  IF ~r.out.ok
             THEN [out |-> r.out, log |-> log \o r.log]
             ELSE CompoundProvider_provide(providers, i + 1,
                      r.out.steps \o steps, log \o r.log, t, e, answers)

\* CompoundProvider::provide returning the steps gathered so far when a
\* child signals cutoff
CompoundProvider_provide_partial(providers, i, steps, log, t, e, answers) ==
    IF i > Len(providers)
    THEN [out |-> Ok(steps), log |-> log]
    ELSE LET r == StepProvider_provide(providers[i], t, e, answers)
         IN  IF ~r.out.ok
             THEN [out |-> Ok(steps), log |-> log \o r.log]
             ELSE CompoundProvider_provide(providers, i + 1,
                      steps \o r.out.steps, log \o r.log, t, e, answers)

\* CompoundProvider::provide that still queries the remaining children
\* after a cutoff before returning it
CompoundProvider_provide_no_fail_fast(providers, i, steps, log, t, e, answers) ==
    IF i > Len(providers)
    THEN [out |-> Ok(steps), log |-> log]
    ELSE LET r == StepProvider_provide(providers[i], t, e, answers)
         IN  IF ~r.out.ok
             THEN [out |-> r.out,
                   log |-> CompoundProvider_provide(providers, i + 1, steps,
                               log \o r.log, t, e, answers).log]
             ELSE CompoundProvider_provide(providers, i + 1,
                      steps \o r.out.steps, log \o r.log, t, e, answers)

\* CompoundProvider::provide; the loop is at child i with `steps` gathered.
CompoundProvider_provide(providers, i, steps, log, t, e, answers) ==
    IF i > Len(providers)
    THEN [out |-> Ok(steps), log |-> log]
    ELSE LET r == StepProvider_provide(providers[i], t, e, answers)
         IN  IF ~r.out.ok
             THEN [out |-> r.out, log |-> log \o r.log]
             ELSE CompoundProvider_provide(providers, i + 1,
                      steps \o r.out.steps, log \o r.log, t, e, answers)

\* FallbackProvider::provide that keeps querying after a nonempty answer
\* and returns the last nonempty one
FallbackProvider_provide_last(providers, i, log, t, e, answers) ==
    IF i > Len(providers)
    THEN [out |-> Ok(<<>>), log |-> log]
    ELSE LET r == StepProvider_provide(providers[i], t, e, answers)
             rest == FallbackProvider_provide(providers, i + 1,
                         log \o r.log, t, e, answers)
         IN  IF ~r.out.ok
             THEN [out |-> r.out, log |-> log \o r.log]
             ELSE IF r.out.steps # <<>> /\ rest.out.ok /\ rest.out.steps = <<>>
                  THEN [out |-> Ok(r.out.steps), log |-> rest.log]
                  ELSE rest

\* FallbackProvider::provide that treats a cutoff like an empty answer and
\* falls through to the next child
FallbackProvider_provide_skip_cutoff(providers, i, log, t, e, answers) ==
    IF i > Len(providers)
    THEN [out |-> Ok(<<>>), log |-> log]
    ELSE LET r == StepProvider_provide(providers[i], t, e, answers)
         IN  IF r.out.ok /\ r.out.steps # <<>>
             THEN [out |-> Ok(r.out.steps), log |-> log \o r.log]
             ELSE FallbackProvider_provide(providers, i + 1,
                      log \o r.log, t, e, answers)

\* FallbackProvider::provide; the loop is at child i.
FallbackProvider_provide(providers, i, log, t, e, answers) ==
    IF i > Len(providers)
    THEN [out |-> Ok(<<>>), log |-> log]
    ELSE LET r == StepProvider_provide(providers[i], t, e, answers)
         IN  IF ~r.out.ok
             THEN [out |-> r.out, log |-> log \o r.log]
             ELSE IF r.out.steps # <<>>
                  THEN [out |-> Ok(r.out.steps), log |-> log \o r.log]
                  ELSE FallbackProvider_provide(providers, i + 1,
                           log \o r.log, t, e, answers)

\* dyn StepProvider::provide: dispatch on the implementation.
StepProvider_provide(p, t, e, answers) ==
    CASE p.kind = "leaf" ->
             [out |-> answers[p.id], log |-> <<Query(p.id, t, e, answers[p.id])>>]
      [] p.kind = "compound" ->
             CompoundProvider_provide(p.providers, 1, <<>>, <<>>, t, e, answers)
      [] p.kind = "fallback" ->
             FallbackProvider_provide(p.providers, 1, <<>>, t, e, answers)

\* --------------------------------------------------------- Controller
VARIABLES
    timer, provider, checker,   \* Controller fields
    state, history,             \* Controller fields; history is Option<Vec>
    start, save_history,        \* the arguments Controller::new was given
    op, ret,                    \* the latest call and how it ended
    queried,                    \* leaf queries made by the latest call
    decisions,                  \* decisions in effect: [pre, step], oldest first
    shape, made, undone,        \* bookkeeping of decide^n undo^k sessions
    failed,                     \* some decide or undo call has panicked
    twin                        \* a second Controller, built with the other
                                \* save_history flag and given the same calls
                                \* for as long as undo is not called

vars == <<timer, provider, checker, state, history, start, save_history,
          op, ret, queried, decisions, shape, made, undone, failed, twin>>

\* Option<Vec<Exp>>
None == [some |-> FALSE, xs |-> <<>>]
Some(xs) == [some |-> TRUE, xs |-> xs]

\* How a call ended.
Ret(kind) == [kind |-> kind, steps |-> <<>>, err |-> "none", b |-> FALSE, e |-> NoneExp]
Unit == Ret("unit")
Panic == Ret("panic")
RetResult(r) ==
    IF r.ok THEN [Ret("steps") EXCEPT !.steps = r.steps]
    ELSE [Ret("cutoff") EXCEPT !.err = r.err]
RetBool(b) == [Ret("bool") EXCEPT !.b = b]
RetExp(e) == [Ret("exp") EXCEPT !.e = e]

Call(name, arg) == [name |-> name, arg |-> arg]

\* the second Controller as constructed
TwinOf(self) ==
    [live |-> TRUE, state |-> self.state, history |-> self.history, ret |-> Unit]

\* Controller::new using the start expression only when history is saved
new_default_start(t, p, c, s, sh) ==
    [timer |-> t, provider |-> p, checker |-> c,
     state |-> IF sh THEN s ELSE 0,
     history |-> IF sh THEN Some(<<>>) ELSE None]

\* Controller::new keeping a history whatever save_history says
new_always_history(t, p, c, s, sh) ==
    [timer |-> t, provider |-> p, checker |-> c, state |-> s,
     history |-> Some(<<>>)]

\* Controller::new
new(t, p, c, s, sh) ==
    [timer |-> t, provider |-> p, checker |-> c, state |-> s,
     history |-> IF sh THEN Some(<<>>) ELSE None]

Init ==
    \E t \in Timers, p \in Providers, c \in Checkers, s \in {0, 1}, sh \in BOOLEAN :
        LET self == new(t, p, c, s, sh)
        IN  /\ timer = self.timer
            /\ provider = self.provider
            /\ checker = self.checker
            /\ state = self.state
            /\ history = self.history
            /\ start = s
            /\ save_history = sh
            /\ op = Call("new", "-")
            /\ ret = Unit
            /\ queried = <<>>
            /\ decisions = <<>>
            /\ shape = IF sh THEN "decides" ELSE "other"
            /\ made = IF sh THEN <<s>> ELSE <<>>
            /\ undone = 0
            /\ failed = FALSE
            /\ twin = TwinOf(new(t, p, c, s, ~sh))

\* Controller::can_undo without the emptiness test
can_undo_some(h) == h.some

\* Controller::can_undo
can_undo(h) == IF ~h.some THEN FALSE ELSE h.xs # <<>>

\* Controller::valid checking the start expression instead of the current one
valid_of_start(c, e) == Check(c, start)

\* Controller::valid
valid(c, e) == Check(c, e)

\* Controller::working_expression
working_expression(e) == e

\* decide pushing the clone at the front of the history
decide_push_front(h, e) == IF ~h.some THEN h ELSE Some(<<e>> \o h.xs)

\* decide, lines 166-169: push a clone of the state when history is kept
decide_push(h, e) == IF ~h.some THEN h ELSE Some(Append(h.xs, e))

\* decide keeping the expression when the step is inapplicable
\* (unwrap_or instead of unwrap)
decide_apply_or_keep(step, e) ==
    IF Apply(step, e) = NoneExp THEN e ELSE Apply(step, e)

\* decide, line 170: step.apply(&self.state); NoneExp when unwrap panics
decide_apply(step, e) == Apply(step, e)

\* undo taking the oldest history entry instead of the newest
undo_pop_first(h) ==
    IF ~h.some THEN NoneExp
    ELSE IF h.xs = <<>> THEN NoneExp ELSE h.xs[1]

\* undo falling back to the default expression instead of panicking
\* (unwrap_or_default instead of unwrap)
undo_pop_or_default(h) ==
    IF ~h.some THEN 0
    ELSE IF h.xs = <<>> THEN 0 ELSE h.xs[Len(h.xs)]

\* undo: history.as_mut().unwrap().pop(); NoneExp when either unwrap panics
undo_pop(h) ==
    IF ~h.some THEN NoneExp
    ELSE IF h.xs = <<>> THEN NoneExp ELSE h.xs[Len(h.xs)]

\* undo reading the newest entry without removing it (last() for pop())
undo_rest_keep(h) == h

\* undo removing the oldest entry instead of the newest
undo_rest_drop_first(h) ==
    IF ~h.some THEN h
    ELSE IF h.xs = <<>> THEN h ELSE Some(Tail(h.xs))

\* the history Vec after pop()
undo_rest(h) ==
    IF ~h.some THEN h
    ELSE IF h.xs = <<>> THEN h ELSE Some(SubSeq(h.xs, 1, Len(h.xs) - 1))

Session(sh, m, u) == /\ shape' = sh /\ made' = m /\ undone' = u
OffSession == Session("other", <<>>, 0)

CtorUnchanged == UNCHANGED <<timer, provider, checker, start, save_history>>

\* The second Controller: the same timer, provider and checker, its own
\* state and history.
\* it stops being followed at the first undo call
TwinOff == [live |-> FALSE, state |-> 0, history |-> None, ret |-> Unit]

\* Controller::provide on the second Controller; its provider is the same
\* deterministic provider, so it gives the same answers
TwinProvide(answers) ==
    IF ~twin.live THEN twin
    ELSE [twin EXCEPT !.ret = RetResult(
              StepProvider_provide(provider, timer, twin.state, answers).out)]

\* Controller::decide on the second Controller
TwinDecide(step) ==
    IF ~twin.live THEN twin
    ELSE LET e2 == decide_apply(step, twin.state)
         IN  [twin EXCEPT !.history = decide_push(twin.history, twin.state),
                          !.state = IF e2 = NoneExp THEN twin.state ELSE e2,
                          !.ret = IF e2 = NoneExp THEN Panic ELSE Unit]

\* an accessor call on the second Controller returning r
TwinReturn(r) == IF ~twin.live THEN twin ELSE [twin EXCEPT !.ret = r]

\* Controller::provide that rolls the expression back to the start
\* expression when the provider signals cutoff
Provide_rollback ==
    \E answers \in Answers :
        LET r == StepProvider_provide(provider, timer, state, answers)
        IN  /\ ret' = RetResult(r.out)
            /\ queried' = r.log
            /\ op' = Call("provide", "-")
            /\ twin' = TwinProvide(answers)
            /\ state' = IF r.out.ok THEN state ELSE start
            /\ UNCHANGED <<history, decisions, shape, made, undone, failed>>
            /\ CtorUnchanged

\* Controller::provide that asks the provider a second time after a cutoff
Provide_retry ==
    \E answers \in Answers :
        LET r1 == StepProvider_provide(provider, timer, state, answers)
            r2 == StepProvider_provide(provider, timer, state, answers)
        IN  /\ ret' = RetResult(IF r1.out.ok THEN r1.out ELSE r2.out)
            /\ queried' = IF r1.out.ok THEN r1.log ELSE r1.log \o r2.log
            /\ op' = Call("provide", "-")
            /\ twin' = TwinProvide(answers)
            /\ UNCHANGED <<state, history, decisions, shape, made, undone, failed>>
            /\ CtorUnchanged

\* Controller::provide
Provide ==
    \E answers \in Answers :
        LET r == StepProvider_provide(provider, timer, state, answers)
        IN  /\ ret' = RetResult(r.out)
            /\ queried' = r.log
            /\ op' = Call("provide", "-")
            /\ twin' = TwinProvide(answers)
            /\ UNCHANGED <<state, history, decisions, shape, made, undone, failed>>
            /\ CtorUnchanged

\* Controller::decide
Decide(step) ==
    /\ Len(decisions) < MaxHist
    /\ Len(history.xs) < MaxHist
    /\ Len(twin.history.xs) < MaxHist
    /\ LET e2 == decide_apply(step, state)
       IN  /\ history' = decide_push(history, state)
           /\ IF e2 = NoneExp
              THEN /\ state' = state
                   /\ ret' = Panic
                   /\ decisions' = decisions
                   /\ OffSession
              ELSE /\ state' = e2
                   /\ ret' = Unit
                   /\ decisions' = Append(decisions, [pre |-> state, step |-> step])
                   /\ IF shape = "decides"
                      THEN Session("decides", Append(made, e2), 0)
                      ELSE OffSession
    /\ failed' = (failed \/ decide_apply(step, state) = NoneExp)
    /\ twin' = TwinDecide(step)
    /\ op' = Call("decide", step)
    /\ queried' = <<>>
    /\ CtorUnchanged

\* Controller::undo
Undo ==
    /\ LET e == undo_pop(history)
       IN  IF e = NoneExp
           THEN /\ ret' = Panic
                /\ UNCHANGED <<state, decisions>>
                /\ history' = undo_rest(history)
                /\ OffSession
           ELSE /\ ret' = Unit
                /\ state' = e
                /\ history' = undo_rest(history)
                /\ decisions' = IF decisions = <<>> THEN <<>>
                                ELSE SubSeq(decisions, 1, Len(decisions) - 1)
                /\ IF shape # "other"
                   THEN Session("undos", made, undone + 1)
                   ELSE OffSession
    /\ failed' = (failed \/ undo_pop(history) = NoneExp)
    /\ twin' = TwinOff
    /\ op' = Call("undo", "-")
    /\ queried' = <<>>
    /\ CtorUnchanged

\* a call of Controller::working_expression
WorkingExpression ==
    /\ ret' = RetExp(working_expression(state))
    /\ twin' = TwinReturn(RetExp(working_expression(twin.state)))
    /\ op' = Call("working_expression", "-")
    /\ queried' = <<>>
    /\ UNCHANGED <<state, history, decisions, shape, made, undone, failed>>
    /\ CtorUnchanged

\* a call of Controller::valid
Valid ==
    /\ ret' = RetBool(valid(checker, state))
    /\ twin' = TwinReturn(RetBool(valid(checker, twin.state)))
    /\ op' = Call("valid", "-")
    /\ queried' = <<>>
    /\ UNCHANGED <<state, history, decisions, shape, made, undone, failed>>
    /\ CtorUnchanged

\* a call of Controller::can_undo
CanUndo ==
    /\ ret' = RetBool(can_undo(history))
    /\ twin' = TwinReturn(RetBool(can_undo(twin.history)))
    /\ op' = Call("can_undo", "-")
    /\ queried' = <<>>
    /\ UNCHANGED <<state, history, decisions, shape, made, undone, failed>>
    /\ CtorUnchanged

Next ==
    \/ Provide
    \/ \E step \in Steps : Decide(step)
    \/ Undo
    \/ WorkingExpression
    \/ Valid
    \/ CanUndo

Spec == Init /\ [][Next]_vars

TypeOK ==
    /\ state \in Exps
    /\ history.some = save_history
    /\ Len(history.xs) <= MaxHist

\* ------------------------------------------------------------- helpers
Last(xs) == xs[Len(xs)]

\* the expressions immediately before each decision in effect, oldest first
PreExpressions == [i \in 1..Len(decisions) |-> decisions[i].pre]

\* the provider is a combinator of the given kind over leaf children
OverLeaves(kind) ==
    /\ provider.kind = kind
    /\ \A i \in 1..Len(provider.providers) : provider.providers[i].kind = "leaf"

ChildIds == [i \in 1..Len(provider.providers) |-> provider.providers[i].id]
QueriedIds == [i \in 1..Len(queried) |-> queried[i].leaf]

RECURSIVE ConcatSteps(_)
\* L1 followed by L2 ... followed by Ln, for the answers in a query log
ConcatSteps(log) ==
    IF log = <<>> THEN <<>> ELSE log[1].out.steps \o ConcatSteps(Tail(log))

\* ---------------------------------------------------------------- C1
\* C1: in every reachable state the current expression is the result of
\* applying the most recently decided step (of the decisions in effect) to
\* the expression that preceded it, or the start expression when no decision
\* is in effect.
C1_CurrentIsLastDecisionApplied ==
    state = IF decisions = <<>> THEN start
            ELSE Apply(Last(decisions).step, Last(decisions).pre)

\* ---------------------------------------------------------------- C2
\* C2: with save_history = true the history is exactly the sequence of the
\* expressions that existed immediately before each decision made so far,
\* oldest first.
C2_HistoryIsPreExpressions ==
    save_history => (history.some /\ history.xs = PreExpressions)

\* ---------------------------------------------------------------- C3
\* C3: if the current expression is e and step.apply(e) yields e2, then after
\* decide(step) the working expression is e2 and, when history is kept, a
\* copy of e is the new last history entry.
C3_DecideApplies ==
    [][ (op'.name = "decide" /\ Apply(op'.arg, state) # NoneExp) =>
          /\ ret'.kind = "unit"
          /\ working_expression(state') = Apply(op'.arg, state)
          /\ save_history => history' = Some(Append(history.xs, state))
          /\ ~save_history => history' = history ]_vars

C3_Witness ==
    /\ op.name = "decide" /\ ret.kind = "unit" /\ save_history
    /\ Len(history.xs) = 2
    /\ state = Apply(op.arg, Last(history.xs))
    /\ state # Last(history.xs)

\* ---------------------------------------------------------------- C4
\* C4: with save_history = true, after n successful decides followed by
\* k <= n undos the working expression is the one that existed right after
\* the first n-k decides; after n undos it is the start expression and
\* can_undo() is false.
C4_RoundTrip ==
    (save_history /\ shape # "other") =>
        /\ undone <= Len(made) - 1
        /\ working_expression(state) = made[Len(made) - undone]
        /\ made[1] = start
        /\ (undone = Len(made) - 1) => (state = start /\ ~can_undo(history))
        /\ (undone < Len(made) - 1) => can_undo(history)

C4_Witness ==
    /\ shape = "undos" /\ undone = 3 /\ made = <<0, 1, 2, 3>>
    /\ state = 0 /\ ~can_undo(history)

\* ---------------------------------------------------------------- C5
\* C5: can_undo() is true iff history is enabled (save_history was true at
\* construction) and the history is nonempty.
C5_CanUndoIff ==
    /\ can_undo(history) <=> (save_history /\ history.some /\ Len(history.xs) > 0)
    /\ op.name = "can_undo" =>
          (ret.kind = "bool" /\ (ret.b <=> (save_history /\ Len(history.xs) > 0)))

C5_Witness ==
    /\ op.name = "can_undo" /\ ret.b /\ save_history /\ Len(history.xs) = 2

\* ---------------------------------------------------------------- C6
\* C6: with save_history = false history stays disabled: can_undo() is false
\* after any calls, and every undo() panics without changing the expression.
C6_DisabledForever ==
    /\ [](~save_history =>
            /\ history = None
            /\ ~can_undo(history)
            /\ (op.name = "can_undo" => ~ret.b)
            /\ (op.name = "undo" => ret.kind = "panic"))
    /\ [][ (~save_history /\ op'.name = "undo") =>
             (ret'.kind = "panic" /\ state' = state /\ history' = None) ]_vars

C6_Witness ==
    /\ ~save_history /\ op.name = "undo" /\ ret.kind = "panic"
    /\ Len(decisions) = 2 /\ state # start

\* ---------------------------------------------------------------- C7
\* C7: undo() when can_undo() is false (history disabled, or enabled but
\* empty) panics and leaves the current expression and the history as they
\* were.
C7_UndoRejected ==
    [][ (op'.name = "undo" /\ ~can_undo(history)) =>
          (ret'.kind = "panic" /\ state' = state /\ history' = history) ]_vars

C7_Witness ==
    /\ op.name = "undo" /\ ret.kind = "panic"
    /\ save_history /\ history = Some(<<>>)

\* ---------------------------------------------------------------- C8
\* C8: decide(step) with a step that is inapplicable to the current
\* expression panics and does not replace the current expression.
C8_DecideRejected ==
    [][ (op'.name = "decide" /\ Apply(op'.arg, state) = NoneExp) =>
          (ret'.kind = "panic" /\ state' = state) ]_vars

C8_Witness ==
    /\ op.name = "decide" /\ ret.kind = "panic"
    /\ Apply(op.arg, state) = NoneExp /\ decisions # <<>>

\* ---------------------------------------------------------------- C9
\* C9: a CompoundProvider whose children answer L1..Ln, none with a cutoff,
\* returns exactly L1 \o L2 \o ... \o Ln (order and duplicates kept), having
\* queried every child once in registration order.
C9_Concatenation ==
    (/\ op.name = "provide" /\ OverLeaves("compound")
     /\ \A i \in 1..Len(queried) : queried[i].out.ok) =>
        /\ ret.kind = "steps"
        /\ QueriedIds = ChildIds
        /\ \A i \in 1..Len(queried) : queried[i].out \in LeafResults(queried[i].leaf)
        /\ ret.steps = ConcatSteps(queried)

C9_Witness ==
    /\ op.name = "provide" /\ OverLeaves("compound")
    /\ ret.kind = "steps"
    /\ ret.steps = <<"inc", "dec", "inc", "inc", "inc">>

\* --------------------------------------------------------------- C10
\* C10: if child k of a CompoundProvider is the first to signal cutoff, the
\* call fails with exactly that signal, returns no partial list, and the
\* children after k are not queried.
C10_ConcatFailFast ==
    (/\ op.name = "provide" /\ OverLeaves("compound")
     /\ \E i \in 1..Len(queried) : ~queried[i].out.ok) =>
        LET k == Len(queried)
        IN  /\ ~queried[k].out.ok
            /\ \A j \in 1..(k - 1) : queried[j].out.ok
            /\ QueriedIds = SubSeq(ChildIds, 1, k)
            /\ ret.kind = "cutoff"
            /\ ret.err = queried[k].out.err
            /\ ret.steps = <<>>

C10_Witness ==
    /\ op.name = "provide" /\ OverLeaves("compound")
    /\ Len(queried) = 2 /\ queried[1].out.steps # <<>>
    /\ ret.kind = "cutoff" /\ ret.err = "OutOfMemory" /\ ret.steps = <<>>

\* --------------------------------------------------------------- C11
\* C11: a FallbackProvider none of whose queried children signals cutoff
\* returns the list of the first child whose list is nonempty, or the empty
\* list when every child's list is empty; the children after the first
\* nonempty one are not queried.
C11_Fallback ==
    (/\ op.name = "provide" /\ OverLeaves("fallback")
     /\ \A i \in 1..Len(queried) : queried[i].out.ok) =>
        LET k == Len(queried)
        IN  /\ ret.kind = "steps"
            /\ k >= 1
            /\ QueriedIds = SubSeq(ChildIds, 1, k)
            /\ \A j \in 1..(k - 1) : queried[j].out.steps = <<>>
            /\ ret.steps = queried[k].out.steps
            /\ (ret.steps = <<>>) => (k = Len(ChildIds))

C11_Witness ==
    /\ op.name = "provide" /\ OverLeaves("fallback")
    /\ Len(queried) = 2 /\ queried[1].out = Ok(<<>>)
    /\ ret.kind = "steps" /\ ret.steps = <<"dec", "inc">>

\* --------------------------------------------------------------- C12
\* C12: if a queried child k of a FallbackProvider signals cutoff, the
\* children before it all returned empty lists, the call ends with exactly
\* that cutoff, and no later child is queried; a child after the first
\* nonempty child is never queried, so it cannot cause a cutoff.
C12_FallbackFailFast ==
    (op.name = "provide" /\ OverLeaves("fallback")) =>
        /\ \A i \in 1..Len(queried) :
              ~queried[i].out.ok =>
                  /\ i = Len(queried)
                  /\ \A j \in 1..(i - 1) : queried[j].out = Ok(<<>>)
                  /\ QueriedIds = SubSeq(ChildIds, 1, i)
                  /\ ret.kind = "cutoff"
                  /\ ret.err = queried[i].out.err
                  /\ ret.steps = <<>>
        /\ \A i \in 1..Len(queried) :
              (queried[i].out.ok /\ queried[i].out.steps # <<>>) =>
                  (i = Len(queried) /\ ret.kind = "steps")

C12_Witness ==
    /\ op.name = "provide" /\ OverLeaves("fallback")
    /\ Len(queried) = 2 /\ queried[1].out = Ok(<<>>)
    /\ ret.kind = "cutoff" /\ ret.err = "OutOfTime"

\* --------------------------------------------------------------- C13
\* C13: provide() (whether it returns steps or a cutoff), valid(),
\* working_expression() and can_undo() leave the current expression and the
\* history unchanged.
C13_QueriesArePure ==
    [][ (op'.name \in {"provide", "valid", "working_expression", "can_undo"}) =>
          (state' = state /\ history' = history) ]_vars

C13_Witness ==
    /\ op.name = "provide" /\ ret.kind = "cutoff" /\ queried # <<>>
    /\ save_history /\ Len(history.xs) = 2 /\ state # start

\* --------------------------------------------------------------- C14
\* C14: valid() returns checker.check of the current working expression, the
\* one in effect after the latest decide or undo.
C14_ValidIsCheckOfCurrent ==
    op.name = "valid" =>
        (ret.kind = "bool" /\ (ret.b <=> Check(checker, working_expression(state))))

C14_Witness ==
    /\ op.name = "valid" /\ ~ret.b
    /\ shape = "undos" /\ undone = 1 /\ made = <<0, 1, 2>> /\ state = 1

\* --------------------------------------------------------------- C15
\* the answers recorded in the query log, as one answer per leaf
LoggedAnswers ==
    [i \in Leaves |->
        IF \E j \in 1..Len(queried) : queried[j].leaf = i
        THEN (CHOOSE q \in {queried[j] : j \in 1..Len(queried)} : q.leaf = i).out
        ELSE Ok(<<>>)]

\* C15: Controller::provide queries its provider once, with the stored timer
\* and the current expression, and returns the provider's result unchanged:
\* a cutoff is exactly the one of the failing leaf, comes with no partial
\* list, and no leaf is queried twice in one call.
C15_CutoffSurfacedUnchanged ==
    op.name = "provide" =>
        /\ queried # <<>>
        /\ \A i \in 1..Len(queried) :
              queried[i].e = state /\ queried[i].timer = timer
        /\ \A i, j \in 1..Len(queried) :
              i # j => queried[i].leaf # queried[j].leaf
        /\ ret = RetResult(StepProvider_provide(provider, timer, state,
                                                LoggedAnswers).out)
        /\ ret.kind \in {"steps", "cutoff"}
        /\ ret.kind = "steps" => \A i \in 1..Len(queried) : queried[i].out.ok
        /\ ret.kind = "cutoff" =>
              /\ Last(queried).out = Err(ret.err)
              /\ ret.steps = <<>>
              /\ \A i \in 1..(Len(queried) - 1) : queried[i].out.ok

C15_Witness ==
    /\ op.name = "provide" /\ ret.kind = "cutoff" /\ ret.err = "OutOfMemory"
    /\ provider.kind = "fallback" /\ ~OverLeaves("fallback")
    /\ Len(queried) = 3
    /\ shape = "undos" /\ undone = 1 /\ Len(made) = 3
    /\ queried[1].e = made[2] /\ made[2] # made[3]

\* --------------------------------------------------------------- C16
RECURSIVE LeafOrder(_)
RECURSIVE LeafOrderOfAll(_)
\* the leaves of a provider, in left-to-right traversal order
LeafOrder(p) ==
    IF p.kind = "leaf" THEN <<p.id>> ELSE LeafOrderOfAll(p.providers)

LeafOrderOfAll(ps) ==
    IF ps = <<>> THEN <<>> ELSE LeafOrder(ps[1]) \o LeafOrderOfAll(Tail(ps))

\* the provider is a combinator whose children are combinators
Nested == provider.kind # "leaf" /\ ~OverLeaves(provider.kind)

\* the leaves below child i of the provider
ChildLeaves(i) ==
    {LeafOrder(provider.providers[i])[j] :
        j \in 1..Len(LeafOrder(provider.providers[i]))}

\* the queries made below child i, and the list child i returned
ChildQueries(i) == SelectSeq(queried, LAMBDA q : q.leaf \in ChildLeaves(i))
ChildList(i) == ConcatSteps(ChildQueries(i))

\* C16: a combinator over combinators obeys the contract it has over leaves:
\* a concatenation of concatenations returns the flat in-order concatenation
\* of all leaf lists, a fallback of concatenations returns the first
\* nonempty concatenated list, and after a cutoff in a leaf no leaf later in
\* left-to-right order is queried.
C16_NestedCombinators ==
    (op.name = "provide" /\ Nested) =>
        LET n == Len(provider.providers)
            noCutoff == \A i \in 1..Len(queried) : queried[i].out.ok
        IN  /\ QueriedIds = SubSeq(LeafOrder(provider), 1, Len(queried))
            /\ \A i \in 1..Len(queried) :
                  ~queried[i].out.ok =>
                      /\ i = Len(queried)
                      /\ ret.kind = "cutoff" /\ ret.err = queried[i].out.err
                      /\ ret.steps = <<>>
            /\ (noCutoff /\ provider.kind = "compound") =>
                  /\ ret.kind = "steps"
                  /\ QueriedIds = LeafOrder(provider)
                  /\ ret.steps = ConcatSteps(queried)
            /\ (noCutoff /\ provider.kind = "fallback") =>
                  /\ ret.kind = "steps"
                  /\ \E k \in 1..n :
                        /\ \A j \in 1..k :
                              Len(ChildQueries(j)) = Cardinality(ChildLeaves(j))
                        /\ \A j \in (k + 1)..n : ChildQueries(j) = <<>>
                        /\ \A j \in 1..(k - 1) : ChildList(j) = <<>>
                        /\ ret.steps = ChildList(k)
                        /\ (ChildList(k) = <<>>) => (k = n)

C16_Witness ==
    /\ op.name = "provide" /\ Nested /\ provider.kind = "fallback"
    /\ ret.kind = "steps" /\ ret.steps = <<"inc", "dec", "inc">>
    /\ QueriedIds = <<1, 2>>

\* --------------------------------------------------------------- C17
\* C17: a decide(step) that fails because the step is inapplicable leaves
\* the history as it was before the call, so can_undo() is the same as if
\* the decide had not been attempted.
C17_FailedDecideKeepsHistory ==
    [][ (op'.name = "decide" /\ Apply(op'.arg, state) = NoneExp) =>
          (history' = history /\ (can_undo(history') <=> can_undo(history))) ]_vars

\* --------------------------------------------------------------- C18
\* C18: with history enabled, after any interleaving of successful decide
\* and undo calls, the history followed by the current expression starts
\* with the start expression and each later element is the result of
\* applying a decided step to its predecessor; the history is as long as
\* the number of successful decides minus the number of successful undos,
\* and a decide after an undo replaces the undone branch.
C18_HistoryChain ==
    (save_history /\ ~failed) =>
        LET chain == Append(history.xs, state)
        IN  /\ chain[1] = start
            /\ Len(history.xs) = Len(decisions)
            /\ \A i \in 1..Len(decisions) :
                  /\ chain[i] = decisions[i].pre
                  /\ chain[i + 1] = Apply(decisions[i].step, chain[i])

C18_Witness ==
    /\ save_history /\ ~failed /\ shape = "other"
    /\ op.name = "decide" /\ ret.kind = "unit"
    /\ Len(history.xs) = 2 /\ state # start

\* --------------------------------------------------------------- C19
RECURSIVE UndoTimes(_, _, _)
\* n calls of undo, each made while can_undo is true
UndoTimes(h, e, n) ==
    IF n = 0 THEN [history |-> h, state |-> e, done |-> TRUE]
    ELSE IF ~can_undo(h) THEN [history |-> h, state |-> e, done |-> FALSE]
    ELSE UndoTimes(undo_rest(h), undo_pop(h), n - 1)

\* C19: with history enabled, from every reachable state, calling undo()
\* while can_undo() is true stops after exactly as many undos as there are
\* history entries, with can_undo() false and the start expression as the
\* working expression; each such undo shortens the history by one.
C19_UndoLoopTerminates ==
    /\ [](save_history =>
            LET r == UndoTimes(history, state, Len(history.xs))
            IN  /\ r.done
                /\ ~can_undo(r.history)
                /\ working_expression(r.state) = start)
    /\ [][ (op'.name = "undo" /\ can_undo(history)) =>
             /\ ret'.kind = "unit"
             /\ history' = undo_rest(history)
             /\ state' = undo_pop(history)
             /\ Len(history'.xs) = Len(history.xs) - 1 ]_vars

C19_Witness ==
    /\ save_history /\ failed /\ Len(history.xs) = 3
    /\ Len(decisions) = 1 /\ state # start

\* --------------------------------------------------------------- C20
\* C20: two controllers built with the same provider, checker and start
\* expression, one with save_history = true and one with false, that get
\* the same undo-free sequence of calls have equal working expressions,
\* equal valid() and equal provide() results after every call.
C20_HistoryFlagNoInfluence ==
    twin.live =>
        /\ twin.history.some = ~save_history
        /\ working_expression(twin.state) = working_expression(state)
        /\ valid(checker, twin.state) = valid(checker, state)
        /\ (op.name \in {"provide", "valid", "working_expression", "decide"}) =>
              twin.ret = ret

C20_Witness ==
    /\ twin.live /\ op.name = "provide"
    /\ ret.kind = "steps" /\ ret.steps # <<>> /\ twin.ret = ret
    /\ Len(decisions) = 2 /\ failed /\ state # start
    /\ Len(history.xs) + Len(twin.history.xs) = 3
====
